---- MODULE Spec2Model ----
(***************************************************************************)
(* A model of the Stock-Market repository: main.py (download three CSV     *)
(* tables, keep the Indian top 100 of each, intersect them, fetch a P/E    *)
(* per common company, sort, write the report) and upload_to_sheets.py     *)
(* (read a CSV and publish it as a Google Sheet).                          *)
(*                                                                         *)
(* Text is a sequence of one-character strings, so that strip(), lower(),  *)
(* sorted() and str() are computed and not assumed.  A pandas cell is a    *)
(* record [t, s, n]: t = "str" (text s), "int" (integer n), "flt" (a float *)
(* held in tenths: 28.4 is n = 284) or "nan" (NaN / None).                 *)
(***************************************************************************)
EXTENDS Integers, Sequences, FiniteSets, TLC

(* ------------------------------ text ---------------------------------- *)

UpperChars == <<"A","B","C","D","E","F","G","H","I","J","K","L","M",
                "N","O","P","Q","R","S","T","U","V","W","X","Y","Z">>
LowerChars == <<"a","b","c","d","e","f","g","h","i","j","k","l","m",
                "n","o","p","q","r","s","t","u","v","w","x","y","z">>
DigitChars == <<"0","1","2","3","4","5","6","7","8","9">>

IndexIn(c, cs) ==
    IF \E i \in DOMAIN cs : cs[i] = c
    THEN CHOOSE i \in DOMAIN cs : cs[i] = c
    ELSE 0

\* ord(c) for the characters the model uses
Ord(c) ==
    IF IndexIn(c, UpperChars) > 0 THEN 64 + IndexIn(c, UpperChars)
    ELSE IF IndexIn(c, LowerChars) > 0 THEN 96 + IndexIn(c, LowerChars)
    ELSE IF IndexIn(c, DigitChars) > 0 THEN 47 + IndexIn(c, DigitChars)
    ELSE IF c = " " THEN 32
    ELSE IF c = "." THEN 46
    ELSE IF c = "/" THEN 47
    ELSE IF c = "_" THEN 95
    ELSE 0

LowerChar(c) ==
    IF IndexIn(c, UpperChars) > 0 THEN LowerChars[IndexIn(c, UpperChars)] ELSE c

\* str.lower()
Lower(s) == [i \in DOMAIN s |-> LowerChar(s[i])]

RECURSIVE LStrip(_)
LStrip(s) == IF s # <<>> /\ Head(s) = " " THEN LStrip(Tail(s)) ELSE s

RECURSIVE RStrip(_)
RStrip(s) ==
    IF s # <<>> /\ s[Len(s)] = " " THEN RStrip(SubSeq(s, 1, Len(s) - 1)) ELSE s

\* str.strip()
Strip(s) == RStrip(LStrip(s))

\* a < b for two Python strings (code point order, a proper prefix is less)
RECURSIVE StrLess(_, _)
StrLess(a, b) ==
    IF b = <<>> THEN FALSE
    ELSE IF a = <<>> THEN TRUE
    ELSE IF Ord(Head(a)) # Ord(Head(b)) THEN Ord(Head(a)) < Ord(Head(b))
    ELSE StrLess(Tail(a), Tail(b))

\* str.isalpha()
IsAlpha(s) ==
    /\ s # <<>>
    /\ \A i \in DOMAIN s : IndexIn(s[i], UpperChars) > 0 \/ IndexIn(s[i], LowerChars) > 0

\* str(n) for an int n >= 0
RECURSIVE IntText(_)
IntText(n) ==
    IF n < 10 THEN <<DigitChars[n + 1]>>
    ELSE IntText(n \div 10) \o <<DigitChars[(n % 10) + 1]>>

\* str(x) for a float x >= 0 held in tenths: 284 is "28.4", 300 is "30.0"
FltText(x) == IntText(x \div 10) \o <<".">> \o <<DigitChars[(x % 10) + 1]>>

(* ------------------------------ cells --------------------------------- *)

Str(s) == [t |-> "str", s |-> s, n |-> 0]
Int_(n) == [t |-> "int", s |-> <<>>, n |-> n]
Flt(x) == [t |-> "flt", s |-> <<>>, n |-> x]
NaN == [t |-> "nan", s |-> <<>>, n |-> 0]

IsNa(c) == c.t = "nan"
IsNumber(c) == c.t \in {"int", "flt"}

\* the value of a number in tenths, to compare an int with a float
Tenths(c) == IF c.t = "int" THEN 10 * c.n ELSE c.n

\* Series.astype(str) on one cell: str(NaN) is 'nan'
AsStr(c) ==
    CASE c.t = "str" -> c.s
      [] c.t = "int" -> IntText(c.n)
      [] c.t = "flt" -> FltText(c.n)
      [] OTHER -> <<"n","a","n">>

(* ---------------------------- DataFrames ------------------------------ *)
(* A DataFrame is [cols, rows]: cols the column labels in order, rows a    *)
(* sequence of [i, c]: i the row's index label, c the cells by column.     *)

HRank == <<"R","a","n","k">>
HName == <<"N","a","m","e">>
HSymbol == <<"S","y","m","b","o","l">>
HTicker == <<"T","i","c","k","e","r">>
HMarketcap == <<"m","a","r","k","e","t","c","a","p">>
HCountry == <<"c","o","u","n","t","r","y">>
India == <<"I","n","d","i","a">>
USA == <<"U","S","A">>

Min(a, b) == IF a < b THEN a ELSE b

HasCol(df, h) == \E k \in DOMAIN df.cols : df.cols[k] = h

\* the first column, in column order, that satisfies P, or <<>> when none does
FirstCol(df, P(_)) ==
    IF \E k \in DOMAIN df.cols : P(df.cols[k])
    THEN df.cols[CHOOSE k \in DOMAIN df.cols :
                    /\ P(df.cols[k])
                    /\ \A j \in 1..(k - 1) : ~P(df.cols[j])]
    ELSE <<>>

\* a column read by read_csv has dtype object unless all its cells are
\* numbers or missing (an empty frame's columns are object)
ColIsObject(df, h) ==
    \/ df.rows = <<>>
    \/ \E k \in DOMAIN df.rows : df.rows[k].c[h].t = "str"

\* the increasing sequence of a finite set of naturals
RECURSIVE Ascending(_)
Ascending(S) ==
    IF S = {} THEN <<>>
    ELSE LET m == CHOOSE x \in S : \A y \in S : x <= y
         IN <<m>> \o Ascending(S \ {m})

\* norm(df): strip the column labels
norm(df) ==
    LET new == [k \in DOMAIN df.cols |-> Strip(df.cols[k])]
        old(h) == df.cols[CHOOSE k \in DOMAIN df.cols : new[k] = h]
    IN [cols |-> new,
        rows |-> [k \in DOMAIN df.rows |->
                    [i |-> df.rows[k].i,
                     c |-> [h \in {new[j] : j \in DOMAIN new} |-> df.rows[k].c[old(h)]]]]]

(* ------------------------------ sorting ------------------------------- *)
(* DataFrame.sort_values(by=one column) with the default kind='quicksort': *)
(* the missing keys go last, in their original order (nargsort), and the   *)
(* others are argsorted by an unstable algorithm, so rows with equal keys  *)
(* may come out in any order.  A key is [na, v].                           *)

KeyOf(c) == [na |-> ~IsNumber(c), v |-> IF IsNumber(c) THEN Tenths(c) ELSE 0]

IsDigitText(s) == s # <<>> /\ \A k \in DOMAIN s : IndexIn(s[k], DigitChars) > 0

RECURSIVE NatOf(_)
NatOf(s) ==
    IF Len(s) = 1 THEN IndexIn(s[1], DigitChars) - 1
    ELSE 10 * NatOf(SubSeq(s, 1, Len(s) - 1)) + IndexIn(s[Len(s)], DigitChars) - 1

\* pd.to_numeric(cell, errors='coerce'): text that is no number becomes NaN
ToNumeric(c) ==
    IF c.t = "str"
    THEN (IF IsDigitText(Strip(c.s)) THEN Int_(NatOf(Strip(c.s))) ELSE NaN)
    ELSE c

\* the orders an unstable comparison sort may leave the positions S in
RECURSIVE SortedOrders(_, _, _)
SortedOrders(S, keys, ascending) ==
    IF S = {} THEN {<<>>}
    ELSE LET first == {a \in S : \A b \in S :
                          IF ascending THEN keys[a].v <= keys[b].v
                                       ELSE keys[a].v >= keys[b].v}
         IN UNION {{<<a>> \o rest : rest \in SortedOrders(S \ {a}, keys, ascending)}
                   : a \in first}

\* nargsort(keys, kind='quicksort', na_position='last'): the possible indexers
ArgSort(keys, ascending) ==
    LET nans == {k \in DOMAIN keys : keys[k].na}
    IN {p \o Ascending(nans) : p \in SortedOrders(DOMAIN keys \ nans, keys, ascending)}

Reorder(df, p) == [cols |-> df.cols, rows |-> [k \in DOMAIN p |-> df.rows[p[k]]]]

(* -------------------------- Ranking Selector -------------------------- *)

TopN == 100

\* head() that cuts nothing
HeadN_NoCut(df) == df

\* DataFrame.head(100)
HeadN(df) == [cols |-> df.cols, rows |-> SubSeq(df.rows, 1, Min(TopN, Len(df.rows)))]

Ok(df) == [err |-> "", df |-> df]
Raise(e) == [err |-> e, df |-> [cols |-> <<>>, rows |-> <<>>]]

IsRankCol(h) == Strip(Lower(h)) = <<"r","a","n","k">>

\* df[df['country'].str.strip().str.lower() == 'india']
CountryFilter(df) ==
    [cols |-> df.cols,
     rows |-> SelectSeq(df.rows,
                LAMBDA r : /\ r.c[HCountry].t = "str"
                           /\ Lower(Strip(r.c[HCountry].s)) = Lower(India))]

\* top100_by_rank_or_col(df): the results it may return, or the exception
top100_by_rank_or_col(df) ==
    IF ~HasCol(df, HCountry) THEN {Raise("KeyError")}
    ELSE IF ~ColIsObject(df, HCountry) THEN {Raise("AttributeError")}
    ELSE
      LET df_country == CountryFilter(df)
          rankc == FirstCol(df_country, IsRankCol)
          numc == FirstCol(df_country, LAMBDA h : ~ColIsObject(df, h))
          keysBy(h, conv(_)) ==
              [k \in DOMAIN df_country.rows |-> KeyOf(conv(df_country.rows[k].c[h]))]
      IN IF rankc # <<>>
         THEN {Ok(HeadN(HeadN(Reorder(df_country, p)))) :
                  p \in ArgSort(keysBy(rankc, ToNumeric), TRUE)}
         ELSE IF numc # <<>>
         THEN {Ok(HeadN(HeadN(Reorder(df_country, p)))) :
                  p \in ArgSort(keysBy(numc, LAMBDA c : c), FALSE)}
         ELSE {Ok(HeadN(HeadN(df_country)))}

(* ------------------------ Intersection Resolver ----------------------- *)

Cols(df) == {df.cols[k] : k \in DOMAIN df.cols}

\* identify_key(df)
identify_key(df) ==
    LET candidates == <<HSymbol, Lower(HSymbol), <<"S","Y","M","B","O","L">>,
                        HTicker, Lower(HTicker)>>
    IN IF \E k \in DOMAIN candidates : candidates[k] \in Cols(df)
       THEN candidates[CHOOSE k \in DOMAIN candidates :
                          /\ candidates[k] \in Cols(df)
                          /\ \A j \in 1..(k - 1) : candidates[j] \notin Cols(df)]
       ELSE IF HName \in Cols(df) THEN HName
       ELSE df.cols[1]

\* set(df[k].astype(str).str.strip())
KeySet(df, k) == {Strip(AsStr(df.rows[j].c[k])) : j \in DOMAIN df.rows}

\* sorted(list(S)) for a set of strings
RECURSIVE SortedList(_)
SortedList(S) ==
    IF S = {} THEN <<>>
    ELSE LET m == CHOOSE x \in S : \A y \in S \ {x} : StrLess(x, y)
         IN <<m>> \o SortedList(S \ {m})

\* common = sorted(list(s1 & s2 & s3))
CommonOf(mc, rev, earn) ==
    SortedList(KeySet(mc, identify_key(mc))
               \cap KeySet(rev, identify_key(rev))
               \cap KeySet(earn, identify_key(earn)))

HSym == <<"s","y","m","b","o","l">>
HNam == <<"n","a","m","e">>
HPe == <<"p","e">>

\* to_small(df): the rows' (__sym__, __name__) pairs
to_small(df) ==
    LET sym == FirstCol(df, LAMBDA h : Lower(h) = Lower(HSymbol) \/ Lower(h) = Lower(HTicker))
        name_col == FirstCol(df, LAMBDA h : Lower(h) = Lower(HName))
    IN [j \in DOMAIN df.rows |->
          [sym |-> IF sym # <<>> THEN AsStr(df.rows[j].c[sym]) ELSE <<>>,
           name |-> IF name_col # <<>> THEN AsStr(df.rows[j].c[name_col]) ELSE <<>>]]

\* the positions of a small frame whose stripped __sym__ is sym
Matched(small, sym) == {j \in DOMAIN small : Strip(small[j].sym) = sym}

\* iloc[0] of the matches
FirstMatch(small, sym) ==
    small[CHOOSE j \in Matched(small, sym) : \A i \in Matched(small, sym) : j <= i]

\* pd.DataFrame(rows) for rows that are dicts with 'symbol' and maybe 'name':
\* a row is [symbol, hasName, name]
FrameOfRows(rows) ==
    IF rows = <<>> THEN [cols |-> <<>>, rows |-> <<>>]
    ELSE LET withName == \E k \in DOMAIN rows : rows[k].hasName
             cols == IF withName THEN <<HSym, HNam>> ELSE <<HSym>>
         IN [cols |-> cols,
             rows |-> [k \in DOMAIN rows |->
                 [i |-> k - 1,
                  c |-> [h \in {cols[j] : j \in DOMAIN cols} |->
                           IF h = HSym THEN Str(rows[k].symbol)
                           ELSE IF rows[k].hasName THEN Str(rows[k].name)
                           ELSE NaN]]]]

\* build_common_df()
build_common_df(common_, mc, rev, earn) ==
    LET a == to_small(mc)
        b == to_small(rev)
        c == to_small(earn)
        common_syms == SelectSeq(common_, LAMBDA x : Strip(x) # <<>>)
        rowOf(sym) ==
            IF Matched(a, sym) # {}
            THEN [symbol |-> sym, hasName |-> TRUE, name |-> FirstMatch(a, sym).name]
            ELSE IF Matched(b, sym) # {}
            THEN [symbol |-> sym, hasName |-> TRUE, name |-> FirstMatch(b, sym).name]
            ELSE IF Matched(c, sym) # {}
            THEN [symbol |-> sym, hasName |-> TRUE, name |-> FirstMatch(c, sym).name]
            ELSE [symbol |-> sym, hasName |-> FALSE, name |-> <<>>]
    IN IF common_syms # <<>>
       THEN FrameOfRows([k \in DOMAIN common_syms |-> rowOf(common_syms[k])])
       ELSE FrameOfRows([k \in DOMAIN common_ |->
                           [symbol |-> <<>>, hasName |-> TRUE, name |-> common_[k]]])

(* ------------------------------ CSV files ----------------------------- *)
(* A CSV file is [cols, rows]: rows of text fields in column order.        *)

\* one field written by to_csv: a missing value is the empty field
CsvField(c) == IF IsNa(c) THEN <<>> ELSE AsStr(c)

\* df.to_csv(path, index=False)
to_csv(df) ==
    [cols |-> df.cols,
     rows |-> [k \in DOMAIN df.rows |->
                 [j \in DOMAIN df.cols |-> CsvField(df.rows[k].c[df.cols[j]])]]]

WriteFile(fs, path, content) ==
    [q \in DOMAIN fs \cup {path} |-> IF q = path THEN content ELSE fs[q]]

OUT_DIR == "outputs"
PathJoin(dir, name) == dir \o "/" \o name
COMMON_COMPANIES == PathJoin(OUT_DIR, "common_companies.csv")
FINAL_REPORT == PathJoin(OUT_DIR, "common_with_pe_sorted.csv")

(* -------------------------- Enrichment Fetcher ------------------------ *)
(* One call of the lookup service either raises or returns an info whose   *)
(* fields are None (the NaN cell), a float or text.                        *)

None_ == NaN

\* Python truthiness of a value
Truthy(v) ==
    CASE v.t = "str" -> v.s # <<>>
      [] v.t \in {"int", "flt"} -> v.n # 0
      [] OTHER -> FALSE

\* a or b
PyOr(a, b) == IF Truthy(a) THEN a ELSE b

\* fetch_pe(ticker), given what the lookup of ticker did
fetch_pe(lookup) ==
    IF lookup.raises THEN None_
    ELSE
      LET info == lookup.info
          pe == PyOr(PyOr(PyOr(info.trailingPE, info.trailingPE),
                          info.priceToEarnings), info.trailingPegRatio)
          price == info.regularMarketPrice
          eps == info.epsTrailingTwelveMonths
      IN IF ~IsNa(pe) THEN pe
         ELSE IF Truthy(price) /\ Truthy(eps)
         THEN (IF IsNumber(price) /\ IsNumber(eps)
               THEN (IF Tenths(eps) # 0
                     THEN Flt((10 * Tenths(price)) \div Tenths(eps))
                     ELSE None_)
               ELSE None_)      \* TypeError, caught by the except
         ELSE pe

(* ---------------------------- Report Builder -------------------------- *)

\* common_df['pe'] = pes
WithPe(df, pes_) ==
    [cols |-> Append(df.cols, HPe),
     rows |-> [k \in DOMAIN df.rows |->
                 [i |-> df.rows[k].i,
                  c |-> [h \in Cols(df) \cup {HPe} |->
                           IF h = HPe THEN pes_[k] ELSE df.rows[k].c[h]]]]]

\* the sort key of one pe among the column's values: numbers by value, text
\* by its place among the column's texts
PeKey(c, column) ==
    [na |-> IsNa(c),
     v |-> IF IsNumber(c) THEN Tenths(c)
           ELSE IF c.t = "str"
           THEN Cardinality({column[j].s : j \in {i \in DOMAIN column :
                                column[i].t = "str" /\ StrLess(column[i].s, c.s)}})
           ELSE 0]

\* reset_index(drop=True)
ResetIndex(df) ==
    [cols |-> df.cols,
     rows |-> [k \in DOMAIN df.rows |-> [i |-> k - 1, c |-> df.rows[k].c]]]

\* common_df.sort_values(by='pe', na_position='last').reset_index(drop=True):
\* comparing text with a number raises TypeError
SortByPe(df) ==
    LET column == [k \in DOMAIN df.rows |-> df.rows[k].c[HPe]]
        texts == \E k \in DOMAIN column : column[k].t = "str"
        numbers == \E k \in DOMAIN column : IsNumber(column[k])
    IN IF texts /\ numbers THEN {Raise("TypeError")}
       ELSE {Ok(ResetIndex(Reorder(df, p))) :
                p \in ArgSort([k \in DOMAIN column |-> PeKey(column[k], column)], TRUE)}

(* ------------------------------ Publisher ----------------------------- *)

CSV_FILENAME == "common_with_sorted_pe.csv"

NaTexts == {<<>>, <<"n","a","n">>, <<"N","a","N">>, <<"N","A">>, <<"N","/","A">>,
            <<"n","u","l","l">>}

\* text of the form digits '.' digit
IsFloatText(s) ==
    /\ Len(s) >= 3
    /\ s[Len(s) - 1] = "."
    /\ IsDigitText(SubSeq(s, 1, Len(s) - 2))
    /\ IsDigitText(<<s[Len(s)]>>)

FloatOf(s) == 10 * NatOf(SubSeq(s, 1, Len(s) - 2)) + NatOf(<<s[Len(s)]>>)

\* the dtype read_csv gives column j
ColKind(csv, j) ==
    LET cells == {csv.rows[k][j] : k \in DOMAIN csv.rows} \ NaTexts
        anyNa == \E k \in DOMAIN csv.rows : csv.rows[k][j] \in NaTexts
    IN IF \E x \in cells : ~IsDigitText(x) /\ ~IsFloatText(x) THEN "object"
       ELSE IF csv.rows = <<>> THEN "object"
       ELSE IF anyNa \/ \E x \in cells : IsFloatText(x) THEN "float"
       ELSE "int"

ReadField(x, kind) ==
    IF x \in NaTexts THEN NaN
    ELSE IF kind = "object" THEN Str(x)
    ELSE IF kind = "int" THEN Int_(NatOf(x))
    ELSE IF IsFloatText(x) THEN Flt(FloatOf(x))
    ELSE Flt(10 * NatOf(x))

\* pd.read_csv(path)
read_csv(csv) ==
    [cols |-> csv.cols,
     rows |-> [k \in DOMAIN csv.rows |->
                 [i |-> k - 1,
                  c |-> [h \in {csv.cols[j] : j \in DOMAIN csv.cols} |->
                           LET j == CHOOSE j \in DOMAIN csv.cols : csv.cols[j] = h
                           IN ReadField(csv.rows[k][j], ColKind(csv, j))]]]]

\* [df.columns.tolist()] + df.fillna("").astype(str).values.tolist()
SheetRows(df) ==
    <<df.cols>> \o
    [k \in DOMAIN df.rows |->
        [j \in DOMAIN df.cols |->
            LET c == df.rows[k].c[df.cols[j]]
            IN IF IsNa(c) THEN <<>> ELSE AsStr(c)]]

(* ------------------------------- inputs ------------------------------- *)

MaxRows == 2

Acme == <<"A","c","m","e">>
Bolt == <<"B","o","l","t">>
BoltLower == <<"b","o","l","t"," ">>
ACM == <<"A","C","M">>
BLT == <<"B","L","T">>
Blank == <<" ">>
HCountryRaw == <<"c","o","u","n","t","r","y"," ">>

RawColsSym == <<HRank, HName, HSymbol, HCountryRaw>>
RawColsNoSym == <<HRank, HName, HCountryRaw>>

RowSym(rank, name, sym, country) ==
    (HRank :> Int_(rank)) @@ (HName :> Str(name)) @@ (HSymbol :> sym)
        @@ (HCountryRaw :> Str(country))

RowNoSym(rank, name, country) ==
    (HRank :> Int_(rank)) @@ (HName :> Str(name)) @@ (HCountryRaw :> Str(country))

\* the rows a downloaded table with a Symbol column is made of
PoolSym ==
    << RowSym(2, Acme, Str(ACM), India),
       RowSym(2, Acme, NaN, India),
       RowSym(2, Acme, Str(Blank), India),
       RowSym(1, Bolt, Str(BLT), India),
       RowSym(1, Bolt, Str(BLT), USA) >>

\* the rows a downloaded table without a Symbol column is made of
PoolNoSym ==
    << RowNoSym(2, Acme, India),
       RowNoSym(1, Bolt, India),
       RowNoSym(1, BoltLower, India) >>

\* a downloaded table that has no country column
NoCountryTable ==
    [cols |-> <<HRank, HName>>,
     rows |-> <<[i |-> 0, c |-> (HRank :> Int_(1)) @@ (HName :> Str(Acme))]>>]

\* the frame read from a CSV holding the rows `picked` (positions of pool)
FrameOf(cols, pool, picked) ==
    LET order == Ascending(picked)
    IN [cols |-> cols,
        rows |-> [k \in DOMAIN order |-> [i |-> k - 1, c |-> pool[order[k]]]]]

PickSets(pool) == {S \in SUBSET DOMAIN pool : 1 <= Cardinality(S) /\ Cardinality(S) <= MaxRows}

\* the tables a download may return
SourceTables ==
    {FrameOf(RawColsSym, PoolSym, S) : S \in PickSets(PoolSym)}
    \cup {FrameOf(RawColsNoSym, PoolNoSym, S) : S \in PickSets(PoolNoSym)}
    \cup {NoCountryTable}

Absent == [raises |-> FALSE,
           info |-> [trailingPE |-> None_, priceToEarnings |-> None_,
                     trailingPegRatio |-> None_, regularMarketPrice |-> None_,
                     epsTrailingTwelveMonths |-> None_]]

Infinity == <<"I","n","f","i","n","i","t","y">>

\* what one call of the lookup service may do
Lookups ==
    {[raises |-> TRUE, info |-> Absent.info]}
    \cup {[raises |-> FALSE, info |-> i] :
            i \in [trailingPE : {None_, Flt(0), Flt(10), Str(Infinity)},
                   priceToEarnings : {None_, Flt(20)},
                   trailingPegRatio : {None_, Flt(0)},
                   regularMarketPrice : {None_, Flt(62), Str(Infinity)},
                   epsTrailingTwelveMonths : {None_, Flt(0), Flt(20)}]}

EmptyDf == [cols |-> <<>>, rows |-> <<>>]
NoFiles == [q \in {} |-> EmptyDf]

\* a report left in the working directory by something else than main.py
StaleReport ==
    [cols |-> <<HSym, HNam, HPe>>,
     rows |-> << <<<<"O","L","D">>, <<"O","l","d">>, <<"1","2",".","5">>>>,
                 <<<<"X","Y","Z">>, <<"X","y","z">>, <<>>>> >>]

NoSheet == [rows |-> <<>>, shared |-> FALSE]

(* ------------------------------- state -------------------------------- *)

VARIABLES
    pc,            \* where main.py is
    mc_df, rev_df, earn_df,
    top100_mc, top100_rev, top100_earn,
    common, common_df,
    pes,           \* the loop's list
    calls,         \* the lookups made: [ticker, lookup], in order
    files,         \* the files main.py wrote, by path
    writes,        \* the paths main.py wrote, in order
    upc,           \* where upload_to_sheets.py is
    df,            \* upload_to_sheets.py's frame
    sheet          \* the rows in the new sheet's first worksheet

vars == <<pc, mc_df, rev_df, earn_df, top100_mc, top100_rev, top100_earn,
          common, common_df, pes, calls, files, writes, upc, df, sheet>>

tables == <<mc_df, rev_df, earn_df>>
tops == <<top100_mc, top100_rev, top100_earn>>
resolved == <<common, common_df>>
fetched == <<pes, calls>>
disk == <<files, writes>>
publisher == <<upc, df, sheet>>

Blanks ==
    /\ mc_df = EmptyDf /\ rev_df = EmptyDf /\ earn_df = EmptyDf
    /\ top100_mc = EmptyDf /\ top100_rev = EmptyDf /\ top100_earn = EmptyDf
    /\ common = <<>> /\ common_df = EmptyDf
    /\ pes = <<>> /\ calls = <<>>
    /\ files = NoFiles /\ writes = <<>>
    /\ upc = "idle" /\ df = EmptyDf /\ sheet = NoSheet

Init == pc = "dl_mc" /\ Blanks

Save(path, content) ==
    /\ files' = WriteFile(files, path, content)
    /\ writes' = Append(writes, path)

(* ------------------------------ main.py ------------------------------- *)

\* download_csv(url): requests.get, raise_for_status or read_csv may raise
DownloadMc ==
    /\ pc = "dl_mc"
    /\ \/ \E t \in SourceTables : mc_df' = t /\ pc' = "dl_rev"
       \/ mc_df' = mc_df /\ pc' = "aborted"
    /\ UNCHANGED <<rev_df, earn_df, tops, resolved, fetched, disk, publisher>>

DownloadRev ==
    /\ pc = "dl_rev"
    /\ \/ \E t \in SourceTables : rev_df' = t /\ pc' = "dl_earn"
       \/ rev_df' = rev_df /\ pc' = "aborted"
    /\ UNCHANGED <<mc_df, earn_df, tops, resolved, fetched, disk, publisher>>

DownloadEarn ==
    /\ pc = "dl_earn"
    /\ \/ \E t \in SourceTables : earn_df' = t /\ pc' = "norm"
       \/ earn_df' = earn_df /\ pc' = "aborted"
    /\ UNCHANGED <<mc_df, rev_df, tops, resolved, fetched, disk, publisher>>

Normalize ==
    /\ pc = "norm"
    /\ mc_df' = norm(mc_df)
    /\ rev_df' = norm(rev_df)
    /\ earn_df' = norm(earn_df)
    /\ pc' = "sel_mc"
    /\ UNCHANGED <<tops, resolved, fetched, disk, publisher>>

SelectMc ==
    /\ pc = "sel_mc"
    /\ \E r \in top100_by_rank_or_col(mc_df) :
         IF r.err = "" THEN top100_mc' = r.df /\ pc' = "sel_rev"
         ELSE top100_mc' = top100_mc /\ pc' = "aborted"
    /\ UNCHANGED <<tables, top100_rev, top100_earn, resolved, fetched, disk, publisher>>

SelectRev ==
    /\ pc = "sel_rev"
    /\ \E r \in top100_by_rank_or_col(rev_df) :
         IF r.err = "" THEN top100_rev' = r.df /\ pc' = "sel_earn"
         ELSE top100_rev' = top100_rev /\ pc' = "aborted"
    /\ UNCHANGED <<tables, top100_mc, top100_earn, resolved, fetched, disk, publisher>>

SelectEarn ==
    /\ pc = "sel_earn"
    /\ \E r \in top100_by_rank_or_col(earn_df) :
         IF r.err = "" THEN top100_earn' = r.df /\ pc' = "save"
         ELSE top100_earn' = top100_earn /\ pc' = "aborted"
    /\ UNCHANGED <<tables, top100_mc, top100_rev, resolved, fetched, disk, publisher>>

SaveTop100 ==
    /\ pc = "save"
    /\ files' = WriteFile(WriteFile(WriteFile(files,
                   PathJoin(OUT_DIR, "top100_marketcap_india.csv"), to_csv(top100_mc)),
                   PathJoin(OUT_DIR, "top100_revenue_india.csv"), to_csv(top100_rev)),
                   PathJoin(OUT_DIR, "top100_earnings_india.csv"), to_csv(top100_earn))
    /\ writes' = writes \o <<PathJoin(OUT_DIR, "top100_marketcap_india.csv"),
                             PathJoin(OUT_DIR, "top100_revenue_india.csv"),
                             PathJoin(OUT_DIR, "top100_earnings_india.csv")>>
    /\ pc' = "common"
    /\ UNCHANGED <<tables, tops, resolved, fetched, publisher>>

Intersect ==
    /\ pc = "common"
    /\ common' = CommonOf(top100_mc, top100_rev, top100_earn)
    /\ pc' = "build"
    /\ UNCHANGED <<tables, tops, common_df, fetched, disk, publisher>>

BuildCommon ==
    /\ pc = "build"
    /\ common_df' = build_common_df(common, top100_mc, top100_rev, top100_earn)
    /\ Save(COMMON_COMPANIES, to_csv(common_df'))
    /\ pc' = "enrich"
    /\ UNCHANGED <<tables, tops, common, fetched, publisher>>

\* row.get(h, '') of the row the loop is at
RowGet(h) ==
    IF h \in Cols(common_df) THEN common_df.rows[Len(pes) + 1].c[h] ELSE Str(<<>>)

\* whether the row the loop is at has a symbol: `if sym:`
HasSymbol ==
    /\ RowGet(HSym).t = "str" /\ RowGet(HNam).t = "str"
    /\ Strip(RowGet(HSym).s) # <<>>

\* one turn of the loop, for a row with a symbol: fetch_pe(sym), sleep
EnrichFetch ==
    /\ pc = "enrich"
    /\ Len(pes) < Len(common_df.rows)
    /\ HasSymbol
    /\ \E l \in Lookups :
          /\ pes' = Append(pes, fetch_pe(l))
          /\ calls' = Append(calls, [ticker |-> Strip(Strip(RowGet(HSym).s)),
                                     pe |-> fetch_pe(l)])
    /\ UNCHANGED <<pc, tables, tops, resolved, disk, publisher>>

\* one turn of the loop, for a row without a symbol; .strip() of a cell that
\* is no text raises AttributeError
EnrichSkip ==
    /\ pc = "enrich"
    /\ Len(pes) < Len(common_df.rows)
    /\ ~HasSymbol
    /\ IF RowGet(HSym).t = "str" /\ RowGet(HNam).t = "str"
       THEN pes' = Append(pes, None_) /\ pc' = pc
       ELSE pes' = pes /\ pc' = "aborted"
    /\ UNCHANGED <<calls, tables, tops, resolved, disk, publisher>>

\* a Report that writes the unsorted frame when the sort raises
Report_WritesOnError ==
    /\ pc = "enrich"
    /\ Len(pes) = Len(common_df.rows)
    /\ \E r \in SortByPe(WithPe(common_df, pes)) :
         /\ common_df' = IF r.err = "" THEN r.df ELSE WithPe(common_df, pes)
         /\ Save(FINAL_REPORT, to_csv(common_df'))
         /\ pc' = IF r.err = "" THEN "done" ELSE "aborted"
    /\ UNCHANGED <<tables, tops, common, fetched, publisher>>

\* common_df['pe'] = pes; sort; to_csv
Report ==
    /\ pc = "enrich"
    /\ Len(pes) = Len(common_df.rows)
    /\ \E r \in SortByPe(WithPe(common_df, pes)) :
         \/ /\ r.err = ""
            /\ common_df' = r.df
            /\ Save(FINAL_REPORT, to_csv(r.df))
            /\ pc' = "done"
         \/ /\ r.err # ""
            /\ common_df' = WithPe(common_df, pes)
            /\ UNCHANGED disk
            /\ pc' = "aborted"
    /\ UNCHANGED <<tables, tops, common, fetched, publisher>>

(* ------------------------- upload_to_sheets.py ------------------------ *)
(* The publisher is run after main.py has ended normally.                  *)

\* what is at `path`: the file main.py wrote there, else whatever the
\* working directory holds (nothing, or a report left there)
FileAt(path) ==
    IF path \in DOMAIN files THEN {[exists |-> TRUE, csv |-> files[path]]}
    ELSE {[exists |-> FALSE, csv |-> EmptyDf], [exists |-> TRUE, csv |-> StaleReport]}

\* os.path.exists(CSV_FILENAME), sys.exit(2) or pd.read_csv(CSV_FILENAME)
UploadRead ==
    /\ pc = "done" /\ upc = "idle"
    /\ \E f \in FileAt(CSV_FILENAME) :
         \/ ~f.exists /\ upc' = "exit2" /\ df' = df
         \/ f.exists /\ upc' = "creds" /\ df' = read_csv(f.csv)
    /\ UNCHANGED <<pc, tables, tops, resolved, fetched, disk, sheet>>

\* os.path.exists("/tmp/gcp.json"), sys.exit(3) or authorize
UploadCreds ==
    /\ upc = "creds"
    /\ \/ upc' = "exit3"
       \/ upc' = "create"
    /\ UNCHANGED <<pc, tables, tops, resolved, fetched, disk, df, sheet>>

\* gc.create, sh.share when TARGET_EMAIL is set, ws.update(rows); the
\* Sheets API may raise at any of them
UploadPublish ==
    /\ upc = "create"
    /\ \/ \E target_email \in BOOLEAN :
            /\ sheet' = [rows |-> SheetRows(df), shared |-> target_email]
            /\ upc' = "uploaded"
       \/ sheet' = sheet /\ upc' = "failed"
    /\ UNCHANGED <<pc, tables, tops, resolved, fetched, disk, df>>

(* --------------------------- specifications --------------------------- *)

Next ==
    \/ DownloadMc \/ DownloadRev \/ DownloadEarn
    \/ Normalize
    \/ SelectMc \/ SelectRev \/ SelectEarn
    \/ SaveTop100
    \/ Intersect
    \/ BuildCommon
    \/ EnrichFetch \/ EnrichSkip
    \/ Report
    \/ UploadRead \/ UploadCreds \/ UploadPublish

Spec == Init /\ [][Next]_vars

(* A specification of the Ranking Selector alone: top100_by_rank_or_col    *)
(* applied to one normalised table.                                        *)

MaxSelRows == 3
MaxBigRows == 102

NotAvailable == <<"N","/","A">>
IndiaLower == <<"i","n","d","i","a"," ">>

SelRankCols == <<Lower(HRank), HName, HCountry>>
SelMetricCols == <<HName, HMarketcap, HCountry>>
SelPlainCols == <<HName, HCountry>>

SelRankRows ==
    {(Lower(HRank) :> r) @@ (HName :> Str(Acme)) @@ (HCountry :> c) :
        r \in {Int_(1), Int_(2), Str(<<"2">>), Str(NotAvailable)},
        c \in {Str(India), Str(IndiaLower), Str(USA)}}

SelMetricRows ==
    {(HName :> Str(Acme)) @@ (HMarketcap :> m) @@ (HCountry :> c) :
        m \in {Int_(5), Int_(7), NaN, Str(NotAvailable)},
        c \in {Str(India), Str(IndiaLower), Str(USA)}}

SelPlainRows ==
    {(HName :> Str(Acme)) @@ (HCountry :> c) :
        c \in {Str(India), Str(IndiaLower), Str(USA), NaN}}

SeqsUpTo(S, n) == UNION {[1..k -> S] : k \in 0..n}

Labelled(cols, cells) ==
    [cols |-> cols, rows |-> [k \in DOMAIN cells |-> [i |-> k - 1, c |-> cells[k]]]]

\* a table of n Indian rows: ranks n-1 down to 0 (metric 1 up to n), every
\* seventh one not available
BigTable(n, kind) ==
    Labelled(
      CASE kind = "rank" -> SelRankCols [] kind = "metric" -> SelMetricCols
        [] OTHER -> SelPlainCols,
      [k \in 1..n |->
        CASE kind = "rank" ->
               (Lower(HRank) :> (IF k % 7 = 3 THEN Str(NotAvailable) ELSE Int_(n - k)))
                 @@ (HName :> Str(Acme)) @@ (HCountry :> Str(India))
          [] kind = "metric" ->
               (HName :> Str(Acme))
                 @@ (HMarketcap :> (IF k % 7 = 3 THEN NaN ELSE Int_(k)))
                 @@ (HCountry :> Str(India))
          [] OTHER -> (HName :> Str(Acme)) @@ (HCountry :> Str(India))])

SelTables ==
    {Labelled(SelRankCols, cells) : cells \in SeqsUpTo(SelRankRows, MaxSelRows)}
    \cup {Labelled(SelMetricCols, cells) : cells \in SeqsUpTo(SelMetricRows, MaxSelRows)}
    \cup {Labelled(SelPlainCols, cells) : cells \in SeqsUpTo(SelPlainRows, MaxSelRows)}
    \cup {BigTable(n, kind) : n \in (TopN - 1)..MaxBigRows, kind \in {"rank", "metric", "plain"}}
    \cup {NoCountryTable}

InitSel ==
    /\ pc = "sel_mc"
    /\ mc_df \in SelTables
    /\ rev_df = EmptyDf /\ earn_df = EmptyDf
    /\ top100_mc = EmptyDf /\ top100_rev = EmptyDf /\ top100_earn = EmptyDf
    /\ common = <<>> /\ common_df = EmptyDf
    /\ pes = <<>> /\ calls = <<>>
    /\ files = NoFiles /\ writes = <<>>
    /\ upc = "idle" /\ df = EmptyDf /\ sheet = NoSheet

NextSel == SelectMc

SpecSel == InitSel /\ [][NextSel]_vars

(* A specification of the enrichment loop and the Report Builder alone:    *)
(* the loop and the sort applied to a common_df of up to MaxReportRows     *)
(* companies with one-letter symbols.                                      *)

MaxReportRows == 5

LetterFrame(n) ==
    FrameOfRows([k \in 1..n |->
        [symbol |-> <<UpperChars[k]>>, hasName |-> TRUE, name |-> <<UpperChars[k]>>]])

InitReport ==
    /\ pc = "enrich"
    /\ common_df \in {LetterFrame(n) : n \in 0..MaxReportRows}
    /\ common = [k \in DOMAIN common_df.rows |-> <<UpperChars[k]>>]
    /\ mc_df = EmptyDf /\ rev_df = EmptyDf /\ earn_df = EmptyDf
    /\ top100_mc = EmptyDf /\ top100_rev = EmptyDf /\ top100_earn = EmptyDf
    /\ pes = <<>> /\ calls = <<>>
    /\ files = WriteFile(NoFiles, COMMON_COMPANIES, to_csv(common_df))
    /\ writes = <<COMMON_COMPANIES>>
    /\ upc = "idle" /\ df = EmptyDf /\ sheet = NoSheet

NextReport == EnrichFetch \/ Report

SpecReport == InitReport /\ [][NextReport]_vars

(* ------------------------------- claims ------------------------------- *)

\* a name as the claims compare names: trimmed, case-insensitive
NormName(x) == Lower(Strip(x))

\* the names a top-100 table holds
NamesIn(t) ==
    IF HName \in Cols(t)
    THEN {NormName(t.rows[k].c[HName].s) :
            k \in {j \in DOMAIN t.rows : t.rows[j].c[HName].t = "str"}}
    ELSE {}

\* the names in all three top-100 tables
NamesInAll == NamesIn(top100_mc) \cap NamesIn(top100_rev) \cap NamesIn(top100_earn)

\* the names of the resolver's output: its name column, and where the frame
\* has none (the keys were names) its symbol column
ResolvedNames ==
    LET h == IF HNam \in Cols(common_df) THEN HNam ELSE HSym
    IN {NormName(common_df.rows[k].c[h].s) :
          k \in {j \in DOMAIN common_df.rows : common_df.rows[j].c[h].t = "str"}}

\* C1: once the resolver has built common_df, the names in it are exactly
\* the names (trimmed, case-insensitive) that are in all three top-100
\* tables, whatever symbol columns the tables carry.
C1_NameIntersection ==
    pc = "enrich" => ResolvedNames = NamesInAll

\* whether a symbol cell holds a symbol (not missing, not blank)
IsSymbol(c) == c.t = "str" /\ Strip(c.s) # <<>>

\* the symbols table t gives for the name x, in row order
SymbolsFor(t, x) ==
    IF HSymbol \in Cols(t) /\ HName \in Cols(t)
    THEN SelectSeq([k \in DOMAIN t.rows |-> t.rows[k].c],
                   LAMBDA c : /\ c[HName].t = "str" /\ NormName(c[HName].s) = x
                              /\ IsSymbol(c[HSymbol]))
    ELSE <<>>

\* C2: every row of common_df whose name is in all three tables, and for
\* which the marketcap table has a symbol, carries the marketcap table's
\* symbol for that name.
C2_MarketcapSymbol ==
    pc = "enrich" =>
      \A k \in DOMAIN common_df.rows :
        LET x == IF HNam \in Cols(common_df) /\ common_df.rows[k].c[HNam].t = "str"
                 THEN NormName(common_df.rows[k].c[HNam].s) ELSE <<>>
            given == SymbolsFor(top100_mc, x)
        IN (x \in NamesInAll /\ given # <<>>)
             => common_df.rows[k].c[HSym] = Str(Strip(given[1][HSymbol].s))

\* the symbols the three top-100 tables supply
SuppliedSymbols ==
    UNION {{Strip(t.rows[k].c[HSymbol].s) :
              k \in {j \in DOMAIN t.rows : IsSymbol(t.rows[j].c[HSymbol])}} :
           t \in {u \in {top100_mc, top100_rev, top100_earn} : HSymbol \in Cols(u)}}

\* C3: while the loop runs, a row whose symbol no table supplied has a null
\* ratio and no lookup was made for it.
C3_NoSymbolNoCall ==
    pc = "enrich" =>
      \A k \in DOMAIN pes :
        LET sym == Strip(common_df.rows[k].c[HSym].s)
        IN sym \notin SuppliedSymbols
             => /\ IsNa(pes[k])
                /\ \A j \in DOMAIN calls : calls[j].ticker # sym

\* the rows of common_df as build_common_df left them: [symbol, name] texts
ResolvedRows == files[COMMON_COMPANIES].rows

\* the place in the report of the k-th resolved company (symbols are distinct)
PlaceOf(k) ==
    CHOOSE j \in DOMAIN common_df.rows :
        CsvField(common_df.rows[j].c[HSym]) = ResolvedRows[k][1]

ReportPe(j) == common_df.rows[j].c[HPe]

\* a <= b for two values of one kind (two numbers or two texts)
PeLeq(a, b) ==
    IF a.t = "str" /\ b.t = "str" THEN ~StrLess(b.s, a.s)
    ELSE IsNumber(a) /\ IsNumber(b) /\ Tenths(a) <= Tenths(b)

\* the report holds the enriched rows, each with its own ratio, the null
\* ratios last and the others ascending; the rows with null ratios keep the
\* resolver's order
ReportOrdered ==
    /\ Len(common_df.rows) = Len(ResolvedRows)
    /\ \A k \in DOMAIN ResolvedRows :
         /\ \E j \in DOMAIN common_df.rows :
               CsvField(common_df.rows[j].c[HSym]) = ResolvedRows[k][1]
         /\ ReportPe(PlaceOf(k)) = pes[k]
    /\ \A i, j \in DOMAIN common_df.rows :
         i < j => /\ IsNa(ReportPe(i)) => IsNa(ReportPe(j))
                  /\ (~IsNa(ReportPe(i)) /\ ~IsNa(ReportPe(j)))
                        => PeLeq(ReportPe(i), ReportPe(j))
    /\ \A k, l \in DOMAIN ResolvedRows :
         (k < l /\ IsNa(pes[k]) /\ IsNa(pes[l])) => PlaceOf(k) < PlaceOf(l)
    /\ files[FINAL_REPORT] = to_csv(common_df)

\* the part of C4 that sort_values guarantees: the written report is the
\* enriched intersection sorted ascending by ratio with every null ratio
\* last, rows with null ratios in the resolver's order; ratios
\* [3.1, null, 1.0, null, 2.0] for A..E give C, E, A, B, D.
C4_ReportSorted ==
    pc = "done" =>
      /\ ReportOrdered
      /\ pes = <<Flt(31), NaN, Flt(10), NaN, Flt(20)>>
           => [j \in DOMAIN common_df.rows |-> common_df.rows[j].c[HSym].s]
                = << <<"C">>, <<"E">>, <<"A">>, <<"B">>, <<"D">> >>

\* the example of C4 has been sorted and written
C4_Witness ==
    /\ pc = "done"
    /\ pes = <<Flt(31), NaN, Flt(10), NaN, Flt(20)>>
    /\ FINAL_REPORT \in DOMAIN files

\* C4: the written report is the enriched intersection sorted ascending by
\* ratio with every null ratio last, and any two rows with equal ratios
\* (two nulls included) keep the order they had in the resolver's output.
C4_StableTies ==
    pc = "done" =>
      /\ ReportOrdered
      /\ \A k, l \in DOMAIN ResolvedRows :
           (k < l /\ pes[k] = pes[l]) => PlaceOf(k) < PlaceOf(l)

Suffix == <<".","N","S">>

\* C5: for a row with an alphabetic symbol of the tables whose lookup gave no number, a
\* second lookup was made with the suffix appended, and a number it gave is
\* the row's ratio.
C5_SuffixFallback ==
    pc = "enrich" =>
      \A k \in DOMAIN pes :
        LET sym == Strip(common_df.rows[k].c[HSym].s)
            first == {j \in DOMAIN calls : calls[j].ticker = sym}
        IN (sym \in SuppliedSymbols /\ IsAlpha(sym)
              /\ \E j \in first : ~IsNumber(calls[j].pe))
             => \E j \in DOMAIN calls :
                   /\ calls[j].ticker = sym \o Suffix
                   /\ IsNumber(calls[j].pe) => pes[k] = calls[j].pe

\* whether a row of the selector's input is Indian
IsIndian(r) ==
    /\ r.c[HCountry].t = "str"
    /\ NormName(r.c[HCountry].s) = <<"i","n","d","i","a">>

\* C6: when the selector returns, it returns at most 100 rows, each a row
\* of the input whose country is the target, none twice.
C6_SelectorBound ==
    pc = "sel_rev" =>
      /\ Len(top100_mc.rows) <= 100
      /\ \A j \in DOMAIN top100_mc.rows :
           \E k \in DOMAIN mc_df.rows :
              /\ mc_df.rows[k] = top100_mc.rows[j]
              /\ IsIndian(mc_df.rows[k])
      /\ \A i, j \in DOMAIN top100_mc.rows :
           i # j => top100_mc.rows[i].i # top100_mc.rows[j].i

\* C6 witness: the selector has cut a table of more than 100 Indian rows
C6_Witness ==
    /\ pc = "sel_rev"
    /\ Len(mc_df.rows) > 100
    /\ Len(top100_mc.rows) = 100

\* C7: no lookup leaves anything but a number or null in the loop's list,
\* and once the loop has begun the run is not aborted.
C7_FailuresAreNull ==
    /\ \A k \in DOMAIN pes : pes[k].t # "str"
    /\ pc = "aborted" => COMMON_COMPANIES \notin DOMAIN files

\* the rank column of the selector's input
RankColumn == CHOOSE h \in Cols(mc_df) : NormName(h) = <<"r","a","n","k">>

\* the numeric rank of a row: [num, v], num FALSE for a rank that is no number
RankOf(r) ==
    LET c == r.c[RankColumn]
    IN IF IsNumber(c) THEN [num |-> TRUE, v |-> Tenths(c)]
       ELSE IF c.t = "str" /\ IsDigitText(Strip(c.s))
       THEN [num |-> TRUE, v |-> 10 * NatOf(Strip(c.s))]
       ELSE [num |-> FALSE, v |-> 0]

\* row a must come before row b: a lower rank, or a rank where b has none
RankBefore(a, b) ==
    /\ RankOf(a).num
    /\ RankOf(b).num => RankOf(a).v < RankOf(b).v

\* the Indian rows of the input that the selector left out
LeftOut ==
    {k \in DOMAIN mc_df.rows :
        /\ IsIndian(mc_df.rows[k])
        /\ \A j \in DOMAIN top100_mc.rows : top100_mc.rows[j].i # mc_df.rows[k].i}

\* the output is the first 100 of the Indian rows in ascending numeric rank,
\* the rows without a numeric rank last and in their original order
RankOrdered ==
    /\ Len(top100_mc.rows)
         = Min(100, Cardinality({k \in DOMAIN mc_df.rows : IsIndian(mc_df.rows[k])}))
    /\ \A j \in DOMAIN top100_mc.rows :
         \E k \in DOMAIN mc_df.rows :
            mc_df.rows[k] = top100_mc.rows[j] /\ IsIndian(mc_df.rows[k])
    /\ \A i, j \in DOMAIN top100_mc.rows :
         i < j => /\ top100_mc.rows[i].i # top100_mc.rows[j].i
                  /\ ~RankBefore(top100_mc.rows[j], top100_mc.rows[i])
                  /\ (~RankOf(top100_mc.rows[i]).num /\ ~RankOf(top100_mc.rows[j]).num)
                        => top100_mc.rows[i].i < top100_mc.rows[j].i
    /\ \A k \in LeftOut : \A j \in DOMAIN top100_mc.rows :
         /\ ~RankBefore(mc_df.rows[k], top100_mc.rows[j])
         /\ (~RankOf(mc_df.rows[k]).num /\ ~RankOf(top100_mc.rows[j]).num)
               => top100_mc.rows[j].i < mc_df.rows[k].i

HasRankColumn == \E h \in Cols(mc_df) : NormName(h) = <<"r","a","n","k">>

\* the part of C8 that sort_values guarantees: with a rank column, the
\* selector returns the first 100 Indian rows in ascending numeric rank,
\* every row whose rank is no number after every row with a numeric rank,
\* the rows without a numeric rank in their original order.
C8_RankOrder ==
    (pc = "sel_rev" /\ HasRankColumn) => RankOrdered

\* a table of more than 100 rows, some without a numeric rank, has been
\* reordered and cut
C8_Witness ==
    /\ pc = "sel_rev" /\ HasRankColumn
    /\ Len(mc_df.rows) > 100
    /\ top100_mc.rows[1].i # 0
    /\ \E j \in DOMAIN top100_mc.rows : ~RankOf(top100_mc.rows[j]).num

\* C8: with a rank column, the selector returns the first 100 Indian rows
\* in ascending numeric rank, the rows whose rank is no number last, and
\* rows with equal rank keep their original row order.
C8_StableRanks ==
    (pc = "sel_rev" /\ HasRankColumn) =>
      /\ RankOrdered
      /\ \A i, j \in DOMAIN top100_mc.rows :
           (i < j /\ RankOf(top100_mc.rows[i]) = RankOf(top100_mc.rows[j]))
              => top100_mc.rows[i].i < top100_mc.rows[j].i
      /\ \A k \in LeftOut : \A j \in DOMAIN top100_mc.rows :
           RankOf(mc_df.rows[k]) = RankOf(top100_mc.rows[j])
              => top100_mc.rows[j].i < mc_df.rows[k].i

FinalWrites == {k \in DOMAIN writes : writes[k] = FINAL_REPORT}

\* C9: the final report is written at most once; when it is written the run
\* has ended normally, the loop has handled every resolved company (a
\* lookup for each one with a symbol) and the report holds one row for each
\* of them; an aborted run has written no final report.
C9_ReportOnceComplete ==
    /\ Cardinality(FinalWrites) <= 1
    /\ (FinalWrites # {}) = (FINAL_REPORT \in DOMAIN files)
    /\ FinalWrites # {} =>
         /\ pc = "done"
         /\ Len(pes) = Len(ResolvedRows)
         /\ Len(files[FINAL_REPORT].rows) = Len(ResolvedRows)
         /\ \A k \in DOMAIN ResolvedRows :
              /\ \E j \in DOMAIN files[FINAL_REPORT].rows :
                    files[FINAL_REPORT].rows[j][1] = ResolvedRows[k][1]
              /\ Strip(ResolvedRows[k][1]) # <<>>
                    => \E j \in DOMAIN calls : calls[j].ticker = Strip(ResolvedRows[k][1])
    /\ pc = "aborted" => FinalWrites = {}

\* C9 witness: a report of two companies, one of them without a ratio, has
\* been written
C9_Witness ==
    /\ pc = "done"
    /\ FinalWrites # {}
    /\ Len(files[FINAL_REPORT].rows) = 2
    /\ \E k \in DOMAIN pes : IsNa(pes[k])

\* C10: a publisher run after main.py has ended normally finds the report
\* main.py wrote, and what it uploads is that report: its header, then one
\* row per record, missing values as empty text.
C10_PublishesReport ==
    /\ pc = "done" => upc # "exit2"
    /\ upc = "uploaded" =>
         sheet.rows = <<files[FINAL_REPORT].cols>> \o files[FINAL_REPORT].rows

====
